---- MODULE Spec2Model ----
(***************************************************************************)
(* A model of mstd's reference counted pointer, include/mstd/refcount.hpp: *)
(* the counter of refcounted, the handle refcount_ptr<T> with its          *)
(* constructors, assignments and destructor, the pointer casts, and        *)
(* make_refcount.                                                          *)
(*                                                                         *)
(* The counter is a std::size_t, an integer modulo 2^64.  The model holds  *)
(* it as the representative of its residue nearest to zero, so ++ is +1,   *)
(* -- is -1 and the test !n_refs is n = 0, exactly as modulo 2^64, for     *)
(* every value the bounded model reaches (the value -1 stands for          *)
(* SIZE_MAX, the result of decrementing a counter that is 0).              *)
(***************************************************************************)
EXTENDS Integers, Sequences, FiniteSets, TLC

VARIABLES
    references, \* refcounted::references of every object
    allocated,  \* the objects operator new has returned
    deleted,    \* per object, the number of times delete was applied to it
    dyntype,    \* per object, the class it was constructed as
    elem,       \* per handle, its element_type ("none": not constructed)
    object,     \* refcount_ptr::object of every handle
    held,       \* the objects that a std::unique_ptr owns
    uaf,        \* a counter operation or a delete reached a dead object, or
                \* a handle was read after its destruction: what follows
                \* is not defined, and a run of the program ends there
    last,       \* the operation under observation (see Commit): its name
                \* and operands, the state before it, and the allocations
                \* and counter primitives it performed, each with the
                \* counter value it left, in order
    \* threads that share one object, each with handles of its own
    pc,         \* per thread, where it is
    own,        \* per thread, refcount_ptr::object of the handle it starts with
    copy,       \* per thread, refcount_ptr::object of the copy it makes
    n_refs,     \* per thread, the local n_refs of decrement_refcount
    rounds,     \* per thread, the copies it has made and destroyed
    \* a second program, which does with a wrapped element type what the
    \* first does with a natively counted one
    boxed,      \* its state: references, allocated, ..., as above
    payload,    \* per object, the value of the data members of its class
    \* a program that uses mstd::unique<T, Closer>
    uq,         \* per unique its value_, per value the calls of the Closer
    \* a program that uses mstd::error_or<T, Error>
    eo          \* per error_or its error_ and the T alive in its value_

seqvars == <<elem, object, held, last, boxed, payload, uq, eo>>
threadvars == <<pc, own, copy, n_refs, rounds>>
vars == <<references, allocated, deleted, dyntype, uaf, seqvars, threadvars>>

\* what a program that uses no handle leaves alone
refcountvars ==
    <<references, allocated, deleted, dyntype, uaf, elem, object, held, last,
      boxed, payload, threadvars>>
utilityvars == <<uq, eo>>

MaxObjects == 2
MaxHandles == 3
NumThreads == 2
MaxRounds == 2
MaxUniques == 3
MaxResults == 3

Objects == 1..MaxObjects
Handles == 1..MaxHandles
Threads == 1..NumThreads
nullptr == 0
NoElem  == "none"

\* The values the data members of an element type take; a constructor
\* without arguments gives the first.
Payloads == {"x", "y"}
DefaultPayload == "x"

\* A class may hold a handle itself: Node derives from refcounted and has
\* the data member refcount_ptr<Node> next.  The member of the object o is
\* the handle Member(o), constructed and destroyed with o.
Member(o) == MaxHandles + o
Members == {Member(o) : o \in Objects}
AllHandles == Handles \cup Members

\* Element types: Base derives from refcounted, Derived derives from Base,
\* Plain does not derive from refcounted.
ElementTypes == {"Base", "Derived", "Plain"}

\* The variables of the type mstd::unique<T, Closer>, the values of T that
\* convert to true, T(), and the state before any unique is constructed.
Uniques == 1..MaxUniques
Values == {"v1", "v2"}
DefaultT == "T()"
NoUnique == "none"

NoUniques ==
    [value_ |-> [u \in Uniques |-> NoUnique],
     closes |-> [v \in Values |-> 0],
     opened |-> {},
     out |-> {},
     crashed |-> FALSE]

\* The variables of the type mstd::error_or<T, Error>, the values of Error
\* that convert to true and the one that converts to false, the values of
\* T, and the types Error of the programs: one whose move constructor and
\* assignment leave the source as it was, as enums, integers and
\* std::error_code, and one whose move leaves the source empty, as
\* std::exception_ptr.
Results == 1..MaxResults
Errors == {"e1", "e2"}
NoError == "no error"
NoResult == "none"
NoT == "no T"
ErrorTypes == {"std::error_code", "std::exception_ptr"}

NoResults(E) ==
    [Error |-> E,
     error_ |-> [r \in Results |-> NoResult],
     value_ |-> [r \in Results |-> NoT],
     op |-> <<"none", 0, NoResult>>,
     thrown |-> FALSE,
     ub |-> FALSE]

\* std::atomic<std::size_t> references{1}
InitialReferences == 1

\* std::is_convertible<From *, To *> on the classes of the model
is_convertible(From, To) ==
    \/ From = To
    \/ From = "Derived" /\ To = "Base"
    \/ To = "refcounted"
        /\ From \in {"Base", "Derived", "Node", "refcount_wrapper<Plain>"}

\* refcount_ptr<T>::refcounted_type
refcounted_type(T) ==
    IF is_convertible(T, "refcounted") THEN T ELSE "refcount_wrapper<Plain>"

\* Access to the constructors of the class C from the function or class
\* from: the constructor of refcount_wrapper is private, and the friends of
\* refcount_wrapper are refcount_ptr and make_refcount; the constructors of
\* the other classes are public.
constructor_accessible(C, from) ==
    C = "refcount_wrapper<Plain>" => from \in {"refcount_ptr", "make_refcount"}

\* std::make_unique<C>(args...) is the expression new C(args...) in the body
\* of std::make_unique: it compiles when the constructor is accessible there.
make_unique_well_formed(C) == constructor_accessible(C, "std::make_unique")

\* the enable_if of the converting constructors and assignments
converts(T2, T) ==
    /\ is_convertible(T2, T)
    /\ is_convertible(refcounted_type(T2), refcounted_type(T))

\* static_cast<T2 *>(static_cast<T *>(nullptr)) is well formed
static_castable(T, T2) == is_convertible(T, T2) \/ is_convertible(T2, T)

\* dynamic_cast<RT2 *>(o)
dynamic_cast(s, o, RT2) ==
    IF o # nullptr /\ is_convertible(s.dyntype[o], RT2) THEN o ELSE nullptr

----------------------------------------------------------------------------
\* The program state as one record, so that the members compose.

Now ==
    [references |-> references, allocated |-> allocated, deleted |-> deleted,
     dyntype |-> dyntype, elem |-> elem, object |-> object, held |-> held,
     payload |-> payload, uaf |-> uaf, ev |-> <<>>]

\* The state of a program that has constructed nothing yet.
Empty ==
    [references |-> [o \in Objects |-> 0],
     allocated |-> [o \in Objects |-> FALSE],
     deleted |-> [o \in Objects |-> 0],
     dyntype |-> [o \in Objects |-> NoElem],
     elem |-> [h \in AllHandles |-> NoElem],
     object |-> [h \in AllHandles |-> nullptr],
     held |-> {}, payload |-> [o \in Objects |-> DefaultPayload],
     uaf |-> FALSE, ev |-> <<>>]

Live(s, o) == s.allocated[o] /\ s.deleted[o] = 0

\* friend std::size_t use_count(refcounted const *)
use_count_of(s, o) == s.references[o]

\* friend std::size_t increment_refcount(refcounted const *)
increment_refcount(s, o) ==
    [s EXCEPT !.references[o] = @ + 1,
              !.uaf = @ \/ ~Live(s, o),
              !.ev = Append(@, <<"inc", o, s.references[o] + 1>>)]

\* ~refcount_ptr(), defined with the members of refcount_ptr below
RECURSIVE dtor(_, _)

\* delete object: the destructor of the object's class destroys its data
\* members, the handle next of a Node among them
delete(s, o) ==
    LET s1 == [s EXCEPT !.deleted[o] = @ + 1,
                        !.uaf = @ \/ ~Live(s, o),
                        !.ev = Append(@, <<"delete", o, s.references[o]>>)]
    IN  IF s.dyntype[o] = "Node" THEN dtor(s1, Member(o)) ELSE s1

\* Mutant of decrement_refcount: the post-decrement references--, whose
\* value is the counter before the decrement.
decrement_refcount_postfix(s, o) ==
    LET n  == s.references[o]
        s1 == [s EXCEPT !.references[o] = n - 1,
                        !.uaf = @ \/ ~Live(s, o),
                        !.ev = Append(@, <<"dec", o, n - 1>>)]
    IN  IF n = 0 THEN delete(s1, o) ELSE s1

\* --static_cast<refcounted const *>(object)->references: one atomic
\* read-modify-write, whose value is the new counter
pre_decrement(s, o) ==
    [s EXCEPT !.references[o] = @ - 1,
              !.uaf = @ \/ ~Live(s, o),
              !.ev = Append(@, <<"dec", o, s.references[o] - 1>>)]

\* friend std::size_t decrement_refcount(T const *)
decrement_refcount(s, o) ==
    LET s1 == pre_decrement(s, o)
        n  == s1.references[o]
    IN  IF n = 0 THEN delete(s1, o) ELSE s1

\* std::make_unique<refcounted_type>(args...): the least free address
new_object(s) == CHOOSE o \in Objects :
    /\ ~s.allocated[o]
    /\ \A o2 \in Objects : ~s.allocated[o2] => o <= o2

\* the constructor of the class T constructs the data members of the
\* object o: the handle next of a Node starts empty
construct_members(s, T, o) ==
    IF T = "Node"
    THEN [s EXCEPT !.elem[Member(o)] = T, !.object[Member(o)] = nullptr]
    ELSE s

\* Mutant of make_unique: the counter of a new object starts at 0.
make_unique_zero(s, T) ==
    LET o == new_object(s) IN
    construct_members(
        [s EXCEPT !.allocated[o] = TRUE,
                  !.held = @ \cup {o},
                  !.dyntype[o] = refcounted_type(T),
                  !.references[o] = 0,
                  !.ev = Append(@, <<"new", o, 0>>)], T, o)

\* std::make_unique<refcounted_type>(args...): a std::unique_ptr owns the
\* new object
make_unique(s, T) ==
    LET o == new_object(s) IN
    construct_members(
        [s EXCEPT !.allocated[o] = TRUE,
                  !.held = @ \cup {o},
                  !.dyntype[o] = refcounted_type(T),
                  !.references[o] = InitialReferences,
                  !.ev = Append(@, <<"new", o, InitialReferences>>)], T, o)

----------------------------------------------------------------------------
\* refcount_ptr<T>: every member takes the state and the handles it works on.

\* refcount_ptr(std::nullptr_t = nullptr)
ctor_null(s, this, T) ==
    [s EXCEPT !.elem[this] = T, !.object[this] = nullptr]

\* Mutant of ctor_raw: the handle takes the pointer and adds no unit.
ctor_raw_adopt(s, this, T, o) ==
    [s EXCEPT !.elem[this] = T, !.object[this] = o]

\* refcount_ptr(refcounted_type * object)
ctor_raw(s, this, T, o) ==
    LET s1 == [s EXCEPT !.elem[this] = T, !.object[this] = o]
    IN  IF o # nullptr THEN increment_refcount(s1, o) ELSE s1

\* Mutant of ctor_copy: the copy takes the pointer and no unit.
ctor_copy_noinc(s, this, other) ==
    [s EXCEPT !.elem[this] = s.elem[other], !.object[this] = s.object[other]]

\* refcount_ptr(refcount_ptr const & other)
ctor_copy(s, this, other) ==
    LET o  == s.object[other]
        s1 == [s EXCEPT !.elem[this] = s.elem[other], !.object[this] = o]
    IN  IF o # nullptr THEN increment_refcount(s1, o) ELSE s1

\* refcount_ptr(refcount_ptr && other)
ctor_move(s, this, other) ==
    [s EXCEPT !.elem[this] = s.elem[other],
              !.object[this] = s.object[other],
              !.object[other] = nullptr]

\* refcount_ptr(std::unique_ptr<T2> object): object(object.release()), for
\* the unique_ptr that owns o (or is empty, o = nullptr)
ctor_unique(s, this, T, o) ==
    [s EXCEPT !.elem[this] = T, !.object[this] = o, !.held = @ \ {o}]

\* template<T2> refcount_ptr(refcount_ptr<T2> const & other)
ctor_conv_copy(s, this, T, other) ==
    LET o  == s.object[other]
        s1 == [s EXCEPT !.elem[this] = T, !.object[this] = o]
    IN  IF o # nullptr THEN increment_refcount(s1, o) ELSE s1

\* template<T2> refcount_ptr(refcount_ptr<T2> && other)
ctor_conv_move(s, this, T, other) ==
    [s EXCEPT !.elem[this] = T,
              !.object[this] = s.object[other],
              !.object[other] = nullptr]

\* Mutant of assign_raw: no test for the identical referent.
assign_raw_unguarded(s, this, other) ==
    LET s1 == IF s.object[this] # nullptr
              THEN decrement_refcount(s, s.object[this]) ELSE s
        s2 == [s1 EXCEPT !.object[this] = other]
    IN  IF other # nullptr THEN increment_refcount(s2, other) ELSE s2

\* Mutant of assign_raw: the new referent is incremented first.
assign_raw_inc_first(s, this, other) ==
    IF other # s.object[this]
    THEN LET s1 == IF other # nullptr THEN increment_refcount(s, other) ELSE s
             s2 == IF s.object[this] # nullptr
                   THEN decrement_refcount(s1, s.object[this]) ELSE s1
         IN  [s2 EXCEPT !.object[this] = other]
    ELSE s

\* refcount_ptr & operator=(refcounted_type * other)
assign_raw(s, this, other) ==
    IF other # s.object[this]
    THEN LET s1 == IF s.object[this] # nullptr
                   THEN decrement_refcount(s, s.object[this]) ELSE s
             s2 == [s1 EXCEPT !.object[this] = other]
         IN  IF other # nullptr THEN increment_refcount(s2, other) ELSE s2
    ELSE s

\* refcount_ptr & operator=(refcount_ptr const & other)
assign_copy(s, this, other) == assign_raw(s, this, s.object[other])

\* Mutant of assign_move: no test for the self-move.
assign_move_unguarded(s, this, other) ==
    LET s1 == IF s.object[this] # nullptr
              THEN decrement_refcount(s, s.object[this]) ELSE s
    IN  [s1 EXCEPT !.object[this] = s1.object[other],
                   !.object[other] = nullptr,
                   !.uaf = @ \/ s1.elem[other] = NoElem]

\* Mutant of assign_move: the source keeps its pointer.
assign_move_keep(s, this, other) ==
    IF other # this
    THEN LET s1 == IF s.object[this] # nullptr
                   THEN decrement_refcount(s, s.object[this]) ELSE s
         IN  [s1 EXCEPT !.object[this] = s1.object[other],
                        !.uaf = @ \/ s1.elem[other] = NoElem]
    ELSE s

\* refcount_ptr & operator=(refcount_ptr && other): other is read and
\* written after the decrement, which may have destroyed it
assign_move(s, this, other) ==
    IF other # this
    THEN LET s1 == IF s.object[this] # nullptr
                   THEN decrement_refcount(s, s.object[this]) ELSE s
         IN  [s1 EXCEPT !.object[this] = s1.object[other],
                        !.object[other] = nullptr,
                        !.uaf = @ \/ s1.elem[other] = NoElem]
    ELSE s

\* template<T2> refcount_ptr & operator=(refcount_ptr<T2> const & other)
assign_conv_copy(s, this, other) == assign_raw(s, this, s.object[other])

\* template<T2> refcount_ptr & operator=(refcount_ptr<T2> && other)
assign_conv_move(s, this, other) ==
    LET s1 == IF s.object[this] # nullptr
              THEN decrement_refcount(s, s.object[this]) ELSE s
    IN  [s1 EXCEPT !.object[this] = s1.object[other],
                   !.object[other] = nullptr,
                   !.uaf = @ \/ s1.elem[other] = NoElem]

\* Mutant of dtor: the handle goes without giving its unit back.
dtor_leak(s, this) ==
    [s EXCEPT !.elem[this] = NoElem, !.object[this] = nullptr]

\* ~refcount_ptr()
dtor(s, this) ==
    LET s1 == IF s.object[this] # nullptr
              THEN decrement_refcount(s, s.object[this]) ELSE s
    IN  [s1 EXCEPT !.elem[this] = NoElem, !.object[this] = nullptr]

\* std::size_t use_count() const
use_count(s, this) ==
    IF s.object[this] # nullptr THEN use_count_of(s, s.object[this]) ELSE 0

\* Mutant of unique: the object is returned whenever the handle has one.
unique_shared(s, this) ==
    IF use_count(s, this) >= 1 THEN s.object[this] ELSE nullptr

\* refcounted_type * unique() const
unique(s, this) ==
    IF use_count(s, this) = 1 THEN s.object[this] ELSE nullptr

\* Mutant of release_unique: the object is given up whenever there is one.
release_unique_shared(s, this) ==
    IF use_count(s, this) < 1 THEN s
    ELSE [s EXCEPT !.held = @ \cup {s.object[this]},
                   !.object[this] = nullptr]

\* std::unique_ptr<refcounted_type> release_unique(): the unique_ptr
\* returned owns the object, or is empty and the state as it was
release_unique(s, this) ==
    IF use_count(s, this) # 1 THEN s
    ELSE [s EXCEPT !.held = @ \cup {s.object[this]},
                   !.object[this] = nullptr]

\* ~unique_ptr() of the unique_ptr that owns o: default_delete, delete o
unique_ptr_dtor(s, o) == delete([s EXCEPT !.held = @ \ {o}], o)

\* the enable_if of refcount_ptr(std::unique_ptr<T2>)
adoptable(T2, T) == is_convertible(T2, refcounted_type(T))

\* The address a pointer holds: of an object (for a native element type
\* the payload is the object itself), or of the member wrapped of a
\* refcount_wrapper, which lies behind the counter of the box.
NullAddress == <<nullptr, "null">>
AddressOf(o) == <<o, "object">>

\* static T * unwrap(T * x) and static T * unwrap(refcount_wrapper<T> * x)
unwrap(T, x) ==
    IF refcounted_type(T) = T THEN AddressOf(x) ELSE <<x, "wrapped">>

\* element_type * get() const
get(s, this) ==
    IF s.object[this] # nullptr
    THEN unwrap(s.elem[this], s.object[this]) ELSE NullAddress

\* explicit operator bool () const
bool(s, this) == s.object[this] # nullptr

\* Mutant of operator_eq: handles are equal when their counts are.
operator_eq_count(s, a, b) == use_count(s, a) = use_count(s, b)

\* bool operator==(refcount_ptr<A> const & a, refcount_ptr<B> const & b)
operator_eq(s, a, b) == get(s, a) = get(s, b)

\* bool operator!=(refcount_ptr<A> const & a, refcount_ptr<B> const & b)
operator_ne(s, a, b) == get(s, a) # get(s, b)

\* bool operator==(std::nullptr_t, refcount_ptr<T> const & p)
operator_eq_nullptr_p(s, p) == ~bool(s, p)

\* bool operator==(refcount_ptr<T> const & p, std::nullptr_t)
operator_eq_p_nullptr(s, p) == ~bool(s, p)

\* bool operator!=(std::nullptr_t, refcount_ptr<T> const & p)
operator_ne_nullptr_p(s, p) == bool(s, p)

\* bool operator!=(refcount_ptr<T> const & p, std::nullptr_t)
operator_ne_p_nullptr(s, p) == bool(s, p)

\* make_refcount<T>(args...): the unique_ptr converts to the handle returned.
\* Where std::make_unique<refcounted_type> does not compile there is no
\* make_refcount<T>: nothing is allocated and no handle is constructed.
make_refcount(s, this, T) ==
    IF ~make_unique_well_formed(refcounted_type(T)) THEN s
    ELSE LET o == new_object(s) IN ctor_unique(make_unique(s, T), this, T, o)

\* Mutant of refcounted_copy: the counter is copied with the object.
refcounted_copy_count(s, other) == s.references[other]

\* refcounted(refcounted const &) noexcept {}: the counter of the object
\* constructed is that of the default member initializer
refcounted_copy(s, other) == InitialReferences

\* refcounted(refcounted &&) noexcept {}
refcounted_move(s, other) == InitialReferences

\* refcounted & operator=(refcounted const &) noexcept { return *this; }:
\* the counter of this after the assignment
refcounted_assign_copy(s, this, other) == s.references[this]

\* refcounted & operator=(refcounted &&) noexcept { return *this; }
refcounted_assign_move(s, this, other) == s.references[this]

\* std::make_unique<C>(x), where x is the object other or std::move of it:
\* the implicit copy or move constructor of C constructs the new object,
\* its base refcounted by the constructor of refcounted and its data members
\* from those of other; a std::unique_ptr owns the new object
make_unique_from(s, C, other, how) ==
    LET o == new_object(s)
        n == IF how = "copy" THEN refcounted_copy(s, other)
                             ELSE refcounted_move(s, other)
    IN  [s EXCEPT !.allocated[o] = TRUE,
                  !.held = @ \cup {o},
                  !.dyntype[o] = C,
                  !.references[o] = n,
                  !.payload[o] = s.payload[other],
                  !.uaf = @ \/ ~Live(s, other),
                  !.ev = Append(@, <<"new", o, n>>)]

\* *p = *q and *p = std::move(*q) on the objects this and other: the implicit
\* assignment of the class assigns the base refcounted and the data members
assign_object(s, this, other, how) ==
    LET n == IF how = "copy" THEN refcounted_assign_copy(s, this, other)
                             ELSE refcounted_assign_move(s, this, other)
    IN  [s EXCEPT !.references[this] = n,
                  !.payload[this] = s.payload[other],
                  !.uaf = @ \/ ~Live(s, this) \/ ~Live(s, other)]

\* element_type * operator->() const, in p->member = v: unwrap(object),
\* without a test for null
store(s, this, v) ==
    IF s.object[this] = nullptr THEN [s EXCEPT !.uaf = TRUE]
    ELSE [s EXCEPT !.payload[s.object[this]] = v,
                   !.uaf = @ \/ ~Live(s, s.object[this])]

\* Mutant of take_or_copy: the object is taken out of p however many
\* handles reference it.
take_or_copy_always_take(s, p) == release_unique_shared(s, p)

\* take_or_copy(p): the unique_ptr returned owns the object release_unique
\* took out of p, or, when that is empty, a copy of *p made by
\* std::make_unique<refcounted_type>(*p); *p has no test for null
take_or_copy(s, p) ==
    LET C  == refcounted_type(s.elem[p])
        s1 == release_unique(s, p)
    IN  IF ~make_unique_well_formed(C) THEN s
        ELSE IF s1.held # s.held THEN s1
        ELSE IF s1.object[p] = nullptr THEN [s1 EXCEPT !.uaf = TRUE]
        ELSE make_unique_from(s1, C, s1.object[p], "copy")

\* Mutant of static_pointer_cast: the argument is never moved from.
static_pointer_cast_copy(s, result, T2, arg, moved) ==
    LET p  == s.object[arg]
        s1 == IF p # nullptr THEN increment_refcount(s, p) ELSE s
    IN  [s1 EXCEPT !.elem[result] = T2, !.object[result] = p]

\* static_pointer_cast<T2>(refcount_ptr<T> p): p is a by-value parameter,
\* move-constructed from an rvalue argument and copy-constructed from an
\* lvalue one; p2 is moved into the result, and p and p2 then end empty.
static_pointer_cast(s, result, T2, arg, moved) ==
    LET p  == s.object[arg]
        s1 == IF moved THEN [s EXCEPT !.object[arg] = nullptr]
              ELSE IF p # nullptr THEN increment_refcount(s, p) ELSE s
    IN  [s1 EXCEPT !.elem[result] = T2, !.object[result] = p]

\* Mutant of dynamic_pointer_cast_lvalue: the result takes no unit.
dynamic_pointer_cast_lvalue_adopt(s, result, T2, p) ==
    ctor_raw_adopt(s, result, T2,
                   dynamic_cast(s, s.object[p], refcounted_type(T2)))

\* dynamic_pointer_cast<T2>(refcount_ptr<T> const & p)
dynamic_pointer_cast_lvalue(s, result, T2, p) ==
    ctor_raw(s, result, T2, dynamic_cast(s, s.object[p], refcounted_type(T2)))

\* Mutant of dynamic_pointer_cast_rvalue: the source is emptied whether the
\* cast succeeds or not.
dynamic_pointer_cast_rvalue_consume(s, result, T2, p) ==
    LET p2 == dynamic_cast(s, s.object[p], refcounted_type(T2))
    IN  [s EXCEPT !.object[p] = nullptr,
                  !.elem[result] = T2, !.object[result] = p2]

\* Mutant of dynamic_pointer_cast_rvalue: a cast that succeeds shares the
\* object as the lvalue form does.
dynamic_pointer_cast_rvalue_share(s, result, T2, p) ==
    ctor_raw(s, result, T2, dynamic_cast(s, s.object[p], refcounted_type(T2)))

\* dynamic_pointer_cast<T2>(refcount_ptr<T> && p)
dynamic_pointer_cast_rvalue(s, result, T2, p) ==
    LET p2 == dynamic_cast(s, s.object[p], refcounted_type(T2))
        s1 == IF p2 # nullptr THEN [s EXCEPT !.object[p] = nullptr] ELSE s
    IN  [s1 EXCEPT !.elem[result] = T2, !.object[result] = p2]

----------------------------------------------------------------------------
\* The operations of a program that uses the handles.  The handles are
\* variables of the program; the element types hold no handles themselves.

Constructed(h) == elem[h] # NoElem

IsLiveNow(o) == allocated[o] /\ deleted[o] = 0

\* A new handle takes the least free name: the names of the program's
\* variables do not matter, so nothing is lost up to renaming.
Fresh(d) == ~Constructed(d) /\ \A h \in Handles : h < d => Constructed(h)

\* The state before an operation, as last.pre keeps it.
Snapshot ==
    [references |-> references, allocated |-> allocated, deleted |-> deleted,
     elem |-> elem, object |-> object, held |-> held, payload |-> payload]

NoOp ==
    [op |-> "none", dst |-> 0, src |-> 0, type |-> NoElem,
     pre |-> [references |-> [o \in Objects |-> 0],
              allocated |-> [o \in Objects |-> FALSE],
              deleted |-> [o \in Objects |-> 0],
              elem |-> [h \in AllHandles |-> NoElem],
              object |-> [h \in AllHandles |-> nullptr],
              held |-> {},
              payload |-> [o \in Objects |-> DefaultPayload]],
     ev |-> <<>>]

\* No operation has been observed yet, and none had undefined behaviour.
Running == last.op = "none" /\ ~uaf

\* Family(T): Base and Derived are counted natively, Plain through
\* refcount_wrapper.  No conversion or cast leads from one family to the
\* other, so a handle of one family never meets an object of the other;
\* a run of the model works within one family.  The wrapped family has
\* handles only, all of them null: no refcount_wrapper can be constructed.
Family(T) == IF is_convertible(T, "refcounted") THEN "native" ELSE "wrapped"

ObjectFamily(o) ==
    IF dyntype[o] = "refcount_wrapper<Plain>" THEN "wrapped" ELSE "native"

SameFamily(T) ==
    /\ \A h \in Handles : Constructed(h) => Family(elem[h]) = Family(T)
    /\ \A o \in Objects : allocated[o] => ObjectFamily(o) = Family(T)

\* The state s an operation ends in becomes the next state.  Any one
\* operation of a run may be the one observed: last then keeps it together
\* with the state before it, and the run ends there.
Commit(s, op, dst, src, T) ==
    /\ references' = s.references
    /\ allocated' = s.allocated
    /\ deleted' = s.deleted
    /\ dyntype' = s.dyntype
    /\ elem' = s.elem
    /\ object' = s.object
    /\ held' = s.held
    /\ payload' = s.payload
    /\ uaf' = s.uaf
    /\ UNCHANGED <<threadvars, boxed, utilityvars>>
    /\ \E observed \in BOOLEAN :
         last' = IF observed
                 THEN [op |-> op, dst |-> dst, src |-> src, type |-> T,
                       pre |-> Snapshot, ev |-> s.ev]
                 ELSE NoOp

ConstructNull ==
    /\ Running
    /\ \E d \in Handles, T \in ElementTypes :
        /\ Fresh(d)
        /\ SameFamily(T)
        /\ Commit(ctor_null(Now, d, T), "ctor_null", d, d, T)

MakeRefcount ==
    /\ Running
    /\ \E d \in Handles, T \in ElementTypes :
        /\ Fresh(d)
        /\ SameFamily(T)
        /\ \E o \in Objects : ~allocated[o]
        /\ Commit(make_refcount(Now, d, T), "make_refcount", d, d, T)

CopyConstruct ==
    /\ Running
    /\ \E d, s \in Handles :
        /\ Fresh(d) /\ Constructed(s)
        /\ Commit(ctor_copy(Now, d, s), "ctor_copy", d, s, elem[s])

MoveConstruct ==
    /\ Running
    /\ \E d, s \in Handles :
        /\ Fresh(d) /\ Constructed(s)
        /\ Commit(ctor_move(Now, d, s), "ctor_move", d, s, elem[s])

ConvCopyConstruct ==
    /\ Running
    /\ \E d, s \in Handles, T \in ElementTypes :
        /\ Fresh(d) /\ Constructed(s)
        /\ T # elem[s] /\ converts(elem[s], T)
        /\ Commit(ctor_conv_copy(Now, d, T, s), "ctor_conv_copy", d, s, T)

ConvMoveConstruct ==
    /\ Running
    /\ \E d, s \in Handles, T \in ElementTypes :
        /\ Fresh(d) /\ Constructed(s)
        /\ T # elem[s] /\ converts(elem[s], T)
        /\ Commit(ctor_conv_move(Now, d, T, s), "ctor_conv_move", d, s, T)

\* d = s is the self-assignment p = p
CopyAssign ==
    /\ Running
    /\ \E d, s \in Handles :
        /\ Constructed(d) /\ Constructed(s)
        /\ elem[s] = elem[d]
        /\ Commit(assign_copy(Now, d, s), "assign_copy", d, s, elem[d])

\* d = s is the self-move p = std::move(p)
MoveAssign ==
    /\ Running
    /\ \E d, s \in Handles :
        /\ Constructed(d) /\ Constructed(s)
        /\ elem[s] = elem[d]
        /\ Commit(assign_move(Now, d, s), "assign_move", d, s, elem[d])

ConvCopyAssign ==
    /\ Running
    /\ \E d, s \in Handles :
        /\ Constructed(d) /\ Constructed(s)
        /\ elem[s] # elem[d] /\ converts(elem[s], elem[d])
        /\ Commit(assign_conv_copy(Now, d, s), "assign_conv_copy", d, s, elem[d])

ConvMoveAssign ==
    /\ Running
    /\ \E d, s \in Handles :
        /\ Constructed(d) /\ Constructed(s)
        /\ elem[s] # elem[d] /\ converts(elem[s], elem[d])
        /\ Commit(assign_conv_move(Now, d, s), "assign_conv_move", d, s, elem[d])

\* The refcounted_type * a program takes from the handle p: p.get() when
\* the element type is counted natively, and p.unique() when it is wrapped
\* (get() then points into the box).  Either is null or points to a live
\* object that p references.
RawPointer(s, p) ==
    IF refcounted_type(s.elem[p]) = s.elem[p] THEN s.object[p] ELSE unique(s, p)

\* refcount_ptr<T> d(raw)
RawConstruct ==
    /\ Running
    /\ \E d, s \in Handles, T \in ElementTypes :
        /\ Fresh(d) /\ Constructed(s)
        /\ is_convertible(refcounted_type(elem[s]), refcounted_type(T))
        /\ Commit(ctor_raw(Now, d, T, RawPointer(Now, s)), "ctor_raw", d, s, T)

\* d = raw
RawAssign ==
    /\ Running
    /\ \E d, s \in Handles :
        /\ Constructed(d) /\ Constructed(s)
        /\ is_convertible(refcounted_type(elem[s]), refcounted_type(elem[d]))
        /\ Commit(assign_raw(Now, d, RawPointer(Now, s)), "assign_raw", d, s, elem[d])

Destroy ==
    /\ Running
    /\ \E h \in Handles :
        /\ Constructed(h)
        /\ Commit(dtor(Now, h), "dtor", h, h, elem[h])

\* The caller of static_pointer_cast guarantees that the object is a T2;
\* the argument is an rvalue (moved) or an lvalue.
StaticPointerCast ==
    /\ Running
    /\ \E d, s \in Handles, T2 \in ElementTypes, moved \in BOOLEAN :
        /\ Fresh(d) /\ Constructed(s)
        /\ static_castable(elem[s], T2)
        /\ object[s] # nullptr =>
               is_convertible(dyntype[object[s]], refcounted_type(T2))
        /\ Commit(static_pointer_cast(Now, d, T2, s, moved),
                  IF moved THEN "static_cast_rvalue" ELSE "static_cast_lvalue",
                  d, s, T2)

DynamicPointerCastLvalue ==
    /\ Running
    /\ \E d, s \in Handles, T2 \in ElementTypes :
        /\ Fresh(d) /\ Constructed(s)
        /\ static_castable(elem[s], T2)
        /\ Commit(dynamic_pointer_cast_lvalue(Now, d, T2, s),
                  "dynamic_cast_lvalue", d, s, T2)

DynamicPointerCastRvalue ==
    /\ Running
    /\ \E d, s \in Handles, T2 \in ElementTypes :
        /\ Fresh(d) /\ Constructed(s)
        /\ static_castable(elem[s], T2)
        /\ Commit(dynamic_pointer_cast_rvalue(Now, d, T2, s),
                  "dynamic_cast_rvalue", d, s, T2)

Init ==
    /\ references = [o \in Objects |-> 0]
    /\ allocated = [o \in Objects |-> FALSE]
    /\ deleted = [o \in Objects |-> 0]
    /\ dyntype = [o \in Objects |-> NoElem]
    /\ elem = [h \in AllHandles |-> NoElem]
    /\ object = [h \in AllHandles |-> nullptr]
    /\ uaf = FALSE
    /\ held = {}
    /\ last = NoOp
    /\ boxed = Empty
    /\ payload = [o \in Objects |-> DefaultPayload]
    /\ uq = NoUniques
    /\ eo = NoResults("std::error_code")
    /\ pc = [t \in Threads |-> "unstarted"]
    /\ own = [t \in Threads |-> nullptr]
    /\ copy = [t \in Threads |-> nullptr]
    /\ n_refs = [t \in Threads |-> 0]
    /\ rounds = [t \in Threads |-> 0]

Next ==
    \/ ConstructNull
    \/ MakeRefcount
    \/ CopyConstruct
    \/ MoveConstruct
    \/ ConvCopyConstruct
    \/ ConvMoveConstruct
    \/ CopyAssign
    \/ MoveAssign
    \/ ConvCopyAssign
    \/ ConvMoveAssign
    \/ RawConstruct
    \/ RawAssign
    \/ Destroy
    \/ StaticPointerCast
    \/ DynamicPointerCastLvalue
    \/ DynamicPointerCastRvalue

Spec == Init /\ [][Next]_vars

----------------------------------------------------------------------------
\* mstd::unique<T, Closer> (unique.hpp).  T is a type of handles of some
\* resource: T() converts to false, every other value to true.  The
\* program has the variables Uniques of the type unique<T, Closer>; it gets
\* a value when it opens the resource, once for each value, and has in its
\* own hands (uq.out) the values release() gave back to it.

\* Closer()(value_)
Closer(q, v) == [q EXCEPT !.closes[v] = @ + 1]

\* explicit operator bool() const { return bool(value_); }
unique_bool(q, this) == q.value_[this] # DefaultT

\* unique() : value_() {}
unique_ctor(q, this) == [q EXCEPT !.value_[this] = DefaultT]

\* explicit unique(T value) : value_(std::move(value)) {}
unique_ctor_value(q, this, v) == [q EXCEPT !.value_[this] = v]

\* T release(): the value returned is q.value_[this]
unique_release(q, this) == [q EXCEPT !.value_[this] = DefaultT]

\* unique(unique && other) : value_(other.release()) {}
unique_ctor_move(q, this, other) ==
    LET v == q.value_[other] IN
    [unique_release(q, other) EXCEPT !.value_[this] = v]

\* ~unique() { if (value_) Closer()(value_); }
unique_dtor(q, this) ==
    LET q1 == IF unique_bool(q, this) THEN Closer(q, q.value_[this]) ELSE q
    IN  [q1 EXCEPT !.value_[this] = NoUnique]

\* unique & operator = (unique && other), as far as its last statement:
\* there is no test for &other == this
unique_assign_move(q, this, other) ==
    LET q1 == IF unique_bool(q, this) THEN Closer(q, q.value_[this]) ELSE q
        v  == q1.value_[other]
    IN  [unique_release(q1, other) EXCEPT !.value_[this] = v]

\* operator = has no return statement: flowing off its end is undefined.
\* A build returns to the caller as if *this had been returned, or ends the
\* program there, or runs on into the code that follows and calls the
\* Closer again before it ends.
Outcomes == {"returns", "ends", "runs on"}

flow_off_end(q, outcome) ==
    CASE outcome = "returns" -> {q}
      [] outcome = "ends" -> {[q EXCEPT !.crashed = TRUE]}
      [] outcome = "runs on" ->
            {[Closer(q, v) EXCEPT !.crashed = TRUE] : v \in q.opened}

\* the program goes on: it has not ended, and no value was closed twice
UniqueRunning == ~uq.crashed /\ \A v \in Values : uq.closes[v] <= 1

UniqueCommit(q) == uq' = q /\ UNCHANGED <<refcountvars, eo>>

\* unique<T, Closer> u;
UniqueDefault ==
    /\ UniqueRunning
    /\ \E u \in Uniques :
        /\ uq.value_[u] = NoUnique
        /\ UniqueCommit(unique_ctor(uq, u))

\* unique<T, Closer> u(v), for a v the program has just opened or has in
\* its hands
UniqueFromValue ==
    /\ UniqueRunning
    /\ \E u \in Uniques, v \in (Values \ uq.opened) \cup uq.out :
        /\ uq.value_[u] = NoUnique
        /\ UniqueCommit([unique_ctor_value(uq, u, v) EXCEPT
                            !.opened = @ \cup {v}, !.out = @ \ {v}])

\* unique<T, Closer> u(std::move(w));
UniqueMoveConstruct ==
    /\ UniqueRunning
    /\ \E u, w \in Uniques :
        /\ uq.value_[u] = NoUnique /\ uq.value_[w] # NoUnique
        /\ UniqueCommit(unique_ctor_move(uq, u, w))

\* u = std::move(w); w may be u
UniqueMoveAssign ==
    /\ UniqueRunning
    /\ \E u, w \in Uniques, outcome \in Outcomes :
        /\ uq.value_[u] # NoUnique /\ uq.value_[w] # NoUnique
        /\ \E q \in flow_off_end(unique_assign_move(uq, u, w), outcome) :
            UniqueCommit(q)

\* T v = u.release(); the program has v when it is not T()
UniqueRelease ==
    /\ UniqueRunning
    /\ \E u \in Uniques :
        /\ uq.value_[u] # NoUnique
        /\ UniqueCommit([unique_release(uq, u) EXCEPT
                            !.out = @ \cup ({uq.value_[u]} \ {DefaultT})])

\* u goes out of scope
UniqueDestroy ==
    /\ UniqueRunning
    /\ \E u \in Uniques :
        /\ uq.value_[u] # NoUnique
        /\ UniqueCommit(unique_dtor(uq, u))

NextCloser ==
    \/ UniqueDefault
    \/ UniqueFromValue
    \/ UniqueMoveConstruct
    \/ UniqueMoveAssign
    \/ UniqueRelease
    \/ UniqueDestroy

SpecCloser == Init /\ [][NextCloser]_vars

----------------------------------------------------------------------------
\* mstd::error_or<T, Error> (error_or.hpp).  eo.value_[r] is the T that is
\* alive in the union member value_ of r, or NoT; eo.ub is set where the
\* code destroys, assigns to or reads a T that is not alive.

\* bool ok() const { return !bool(error_); }
ok(e, this) == e.error_[this] = NoError

\* the Error x after std::move(x) has been constructed or assigned from
moved_from(E, x) == IF E = "std::exception_ptr" THEN NoError ELSE x

\* new (&value_) T(v), v the value_ of other
construct_T(e, this, other) ==
    [e EXCEPT !.value_[this] = e.value_[other],
              !.ub = @ \/ e.value_[other] = NoT]

\* value_.~T()
destroy_T(e, this) ==
    [e EXCEPT !.value_[this] = NoT, !.ub = @ \/ e.value_[this] = NoT]

\* value_ = other.value_ and value_ = std::move(other.value_)
assign_T(e, this, other) ==
    [e EXCEPT !.value_[this] = e.value_[other],
              !.ub = @ \/ e.value_[this] = NoT \/ e.value_[other] = NoT]

\* error_or(Error e) : error_(std::move(e)); throws when ok(), and then
\* there is no object
error_or_ctor_error(e, this, x) ==
    LET e1 == [e EXCEPT !.error_[this] = x] IN
    IF ok(e1, this) THEN [e EXCEPT !.thrown = TRUE] ELSE e1

\* error_or(T value) : error_() { new (&value_) T(std::move(value)); }
error_or_ctor_value(e, this, v) ==
    [e EXCEPT !.error_[this] = NoError, !.value_[this] = v]

\* error_or(error_or && other) and error_or(error_or const & other)
error_or_ctor(e, this, other, how) ==
    LET x  == e.error_[other]
        e1 == [e EXCEPT !.error_[other] =
                            IF how = "move" THEN moved_from(e.Error, x) ELSE x,
                        !.error_[this] = x]
    IN  IF ok(e1, this) THEN construct_T(e1, this, other) ELSE e1

\* error_or & operator = (error_or && other) and (error_or const & other);
\* an Error assigned to itself keeps its value
error_or_assign(e, this, other, how) ==
    LET e1 == IF ok(e, this) /\ ok(e, other) THEN assign_T(e, this, other)
              ELSE IF ok(e, this) THEN destroy_T(e, this)
              ELSE IF ok(e, other) THEN construct_T(e, this, other)
              ELSE e
        x  == e1.error_[other]
        e2 == [e1 EXCEPT !.error_[other] =
                             IF how = "move" THEN moved_from(e.Error, x) ELSE x]
    IN  [e2 EXCEPT !.error_[this] = x]

\* ~error_or() { if (ok()) value_.~T(); }
error_or_dtor(e, this) ==
    LET e1 == IF ok(e, this) THEN destroy_T(e, this) ELSE e IN
    [e1 EXCEPT !.error_[this] = NoResult, !.value_[this] = NoT]

ResultsRunning == ~eo.ub

\* the state e an operation ends in, and the operation
ErrorOrCommit(e, name, r, x) ==
    /\ eo' = [e EXCEPT !.op = <<name, r, x>>]
    /\ UNCHANGED <<refcountvars, uq>>

\* the state an operation starts in
Results0 == [eo EXCEPT !.thrown = FALSE]

\* error_or<T, Error> r(x), for an Error x that may be 'no error'
ResultFromError ==
    /\ ResultsRunning
    /\ \E r \in Results, x \in Errors \cup {NoError} :
        /\ eo.error_[r] = NoResult
        /\ ErrorOrCommit(error_or_ctor_error(Results0, r, x),
                         "ctor_error", r, x)

\* error_or<T, Error> r(v)
ResultFromValue ==
    /\ ResultsRunning
    /\ \E r \in Results, v \in Payloads :
        /\ eo.error_[r] = NoResult
        /\ ErrorOrCommit(error_or_ctor_value(Results0, r, v),
                         "ctor_value", r, v)

\* error_or<T, Error> r(o) and r(std::move(o))
ResultConstruct ==
    /\ ResultsRunning
    /\ \E r, o \in Results, how \in {"copy", "move"} :
        /\ eo.error_[r] = NoResult /\ eo.error_[o] # NoResult
        /\ ErrorOrCommit(error_or_ctor(Results0, r, o, how),
                         "ctor_" \o how, r, eo.error_[o])

\* r = o and r = std::move(o); o may be r
ResultAssign ==
    /\ ResultsRunning
    /\ \E r, o \in Results, how \in {"copy", "move"} :
        /\ eo.error_[r] # NoResult /\ eo.error_[o] # NoResult
        /\ ErrorOrCommit(error_or_assign(Results0, r, o, how),
                         "assign_" \o how, r, eo.error_[o])

\* r goes out of scope
ResultDestroy ==
    /\ ResultsRunning
    /\ \E r \in Results :
        /\ eo.error_[r] # NoResult
        /\ ErrorOrCommit(error_or_dtor(Results0, r), "dtor", r, NoResult)

InitErrorOr ==
    /\ references = [o \in Objects |-> 0]
    /\ allocated = [o \in Objects |-> FALSE]
    /\ deleted = [o \in Objects |-> 0]
    /\ dyntype = [o \in Objects |-> NoElem]
    /\ elem = [h \in AllHandles |-> NoElem]
    /\ object = [h \in AllHandles |-> nullptr]
    /\ uaf = FALSE
    /\ held = {}
    /\ last = NoOp
    /\ boxed = Empty
    /\ payload = [o \in Objects |-> DefaultPayload]
    /\ uq = NoUniques
    /\ \E E \in ErrorTypes : eo = NoResults(E)
    /\ pc = [t \in Threads |-> "unstarted"]
    /\ own = [t \in Threads |-> nullptr]
    /\ copy = [t \in Threads |-> nullptr]
    /\ n_refs = [t \in Threads |-> 0]
    /\ rounds = [t \in Threads |-> 0]

NextErrorOr ==
    \/ ResultFromError
    \/ ResultFromValue
    \/ ResultConstruct
    \/ ResultAssign
    \/ ResultDestroy

SpecErrorOr == InitErrorOr /\ [][NextErrorOr]_vars

----------------------------------------------------------------------------
\* Two programs in step: one makes, copies, moves, assigns and destroys
\* handles of the natively counted Base, the other does the same, operation
\* for operation and on the same handles, with the wrapped Plain.  The
\* first runs in the variables of the model, the second in boxed; last
\* keeps the operation and the primitives the first performed, boxed.ev
\* those of the second.  A new handle has the same name in both programs,
\* any name that is free.

NativeType == "Base"
WrappedType == "Plain"

\* the second program before an operation
Boxed == [boxed EXCEPT !.ev = <<>>]

DualCommit(s, w, op, dst, src) ==
    /\ references' = s.references
    /\ allocated' = s.allocated
    /\ deleted' = s.deleted
    /\ dyntype' = s.dyntype
    /\ elem' = s.elem
    /\ object' = s.object
    /\ held' = s.held
    /\ payload' = s.payload
    /\ uaf' = s.uaf
    /\ boxed' = w
    /\ UNCHANGED utilityvars
    /\ last' = [op |-> op, dst |-> dst, src |-> src, type |-> NativeType,
                pre |-> Snapshot, ev |-> s.ev]
    /\ UNCHANGED threadvars

\* The second program has come as far as the first.  It has not where the
\* first made an object and the second, whose make_refcount<Plain> does not
\* compile, made none: the pair of runs ends there.
InStep == \A h \in Handles : Constructed(h) <=> boxed.elem[h] # NoElem

DualConstructNull ==
    \E d \in Handles :
        /\ InStep
        /\ ~Constructed(d)
        /\ DualCommit(ctor_null(Now, d, NativeType),
                      ctor_null(Boxed, d, WrappedType), "ctor_null", d, d)

DualMakeRefcount ==
    \E d \in Handles :
        /\ InStep
        /\ ~Constructed(d)
        /\ \E o \in Objects : ~allocated[o]
        /\ DualCommit(make_refcount(Now, d, NativeType),
                      make_refcount(Boxed, d, WrappedType),
                      "make_refcount", d, d)

DualCopyConstruct ==
    \E d, s \in Handles :
        /\ InStep
        /\ ~Constructed(d) /\ Constructed(s)
        /\ DualCommit(ctor_copy(Now, d, s), ctor_copy(Boxed, d, s),
                      "ctor_copy", d, s)

DualMoveConstruct ==
    \E d, s \in Handles :
        /\ InStep
        /\ ~Constructed(d) /\ Constructed(s)
        /\ DualCommit(ctor_move(Now, d, s), ctor_move(Boxed, d, s),
                      "ctor_move", d, s)

DualCopyAssign ==
    \E d, s \in Handles :
        /\ InStep
        /\ Constructed(d) /\ Constructed(s)
        /\ DualCommit(assign_copy(Now, d, s), assign_copy(Boxed, d, s),
                      "assign_copy", d, s)

DualMoveAssign ==
    \E d, s \in Handles :
        /\ InStep
        /\ Constructed(d) /\ Constructed(s)
        /\ DualCommit(assign_move(Now, d, s), assign_move(Boxed, d, s),
                      "assign_move", d, s)

DualDestroy ==
    \E h \in Handles :
        /\ InStep
        /\ Constructed(h)
        /\ DualCommit(dtor(Now, h), dtor(Boxed, h), "dtor", h, h)

NextDual ==
    \/ DualConstructNull
    \/ DualMakeRefcount
    \/ DualCopyConstruct
    \/ DualMoveConstruct
    \/ DualCopyAssign
    \/ DualMoveAssign
    \/ DualDestroy

SpecDual == Init /\ [][NextDual]_vars

----------------------------------------------------------------------------
\* A program whose objects are Nodes, each with the handle next: a list
\* p -> A, A.next -> B, ...  The program works on the handles that are its
\* own variables and on the members next of the objects it can reach
\* through them, as in p->next = q and p = p->next.

RECURSIVE ReachableFrom(_, _)
\* the objects reached from those of R in up to k steps along next
ReachableFrom(R, k) ==
    IF k = 0 THEN R
    ELSE ReachableFrom(
             R \cup ({object[Member(o)] : o \in R} \ {nullptr}), k - 1)

\* the objects the program has a path of handles to
Reachable ==
    ReachableFrom({object[h] : h \in {g \in Handles : Constructed(g)}}
                      \ {nullptr}, MaxObjects)

\* the handles an operation may name
Usable(h) ==
    /\ Constructed(h)
    /\ h \in Handles \/ \E o \in Reachable : IsLiveNow(o) /\ h = Member(o)

NodeMakeRefcount ==
    /\ Running
    /\ \E d \in Handles :
        /\ Fresh(d)
        /\ \E o \in Objects : ~allocated[o]
        /\ Commit(make_refcount(Now, d, "Node"), "make_refcount", d, d, "Node")

NodeCopyConstruct ==
    /\ Running
    /\ \E d \in Handles, s \in AllHandles :
        /\ Fresh(d) /\ Usable(s)
        /\ Commit(ctor_copy(Now, d, s), "ctor_copy", d, s, elem[s])

NodeMoveConstruct ==
    /\ Running
    /\ \E d \in Handles, s \in AllHandles :
        /\ Fresh(d) /\ Usable(s)
        /\ Commit(ctor_move(Now, d, s), "ctor_move", d, s, elem[s])

NodeCopyAssign ==
    /\ Running
    /\ \E d, s \in AllHandles :
        /\ Usable(d) /\ Usable(s)
        /\ Commit(assign_copy(Now, d, s), "assign_copy", d, s, elem[d])

NodeMoveAssign ==
    /\ Running
    /\ \E d, s \in AllHandles :
        /\ Usable(d) /\ Usable(s)
        /\ Commit(assign_move(Now, d, s), "assign_move", d, s, elem[d])

\* a variable of the program goes out of scope
NodeDestroy ==
    /\ Running
    /\ \E h \in Handles :
        /\ Constructed(h)
        /\ Commit(dtor(Now, h), "dtor", h, h, elem[h])

NextChain ==
    \/ NodeMakeRefcount
    \/ NodeCopyConstruct
    \/ NodeMoveConstruct
    \/ NodeCopyAssign
    \/ NodeMoveAssign
    \/ NodeDestroy

SpecChain == Init /\ [][NextChain]_vars

----------------------------------------------------------------------------
\* A program that also takes objects out of their handles with
\* release_unique, holds them in std::unique_ptr, and gives them to handles
\* again or lets the unique_ptr delete them.

ReleaseUnique ==
    /\ Running
    /\ \E h \in Handles :
        /\ Constructed(h)
        /\ Commit(release_unique(Now, h), "release_unique", h, h, elem[h])

\* refcount_ptr<T> d(std::move(u)) for a unique_ptr u to the class of the
\* object it owns
AdoptUnique ==
    /\ Running
    /\ \E d \in Handles, T \in ElementTypes, o \in held :
        /\ Fresh(d)
        /\ adoptable(dyntype[o], T)
        /\ Commit(ctor_unique(Now, d, T, o), "ctor_unique", d, d, T)

DropUnique ==
    /\ Running
    /\ \E o \in held :
        Commit(unique_ptr_dtor(Now, o), "unique_ptr_dtor", 0, 0, NoElem)

NextUnique ==
    \/ MakeRefcount
    \/ CopyConstruct
    \/ Destroy
    \/ ReleaseUnique
    \/ AdoptUnique
    \/ DropUnique

SpecUnique == Init /\ [][NextUnique]_vars

----------------------------------------------------------------------------
\* A program that also copies and assigns the objects themselves, through
\* its handles: p->member = v, make_refcount<T>(*p), *p = *q, and
\* take_or_copy(p).

Store ==
    /\ Running
    /\ \E h \in Handles, v \in Payloads :
        /\ Constructed(h) /\ object[h] # nullptr
        /\ v # payload[object[h]]
        /\ Commit(store(Now, h, v), "store", h, h, elem[h])

\* auto d = make_refcount<T>(*p), or make_refcount<T>(std::move(*p))
ObjectConstruct ==
    /\ Running
    /\ \E d, p \in Handles, T \in ElementTypes, how \in {"copy", "move"} :
        /\ Fresh(d) /\ Constructed(p) /\ object[p] # nullptr
        /\ is_convertible(elem[p], T)
        /\ make_unique_well_formed(refcounted_type(T))
        /\ \E o \in Objects : ~allocated[o]
        /\ LET o == new_object(Now)
               s == make_unique_from(Now, refcounted_type(T), object[p], how)
           IN  Commit(ctor_unique(s, d, T, o), "object_" \o how, d, p, T)

\* *p = *q, or *p = std::move(*q)
ObjectAssign ==
    /\ Running
    /\ \E p, q \in Handles, how \in {"copy", "move"} :
        /\ Constructed(p) /\ object[p] # nullptr
        /\ Constructed(q) /\ object[q] # nullptr
        /\ is_convertible(elem[q], elem[p])
        /\ Commit(assign_object(Now, object[p], object[q], how),
                  "object_assign_" \o how, p, q, elem[p])

\* auto u = take_or_copy(p), for a p that is not null
TakeOrCopy ==
    /\ Running
    /\ \E p \in Handles :
        /\ Constructed(p) /\ object[p] # nullptr
        /\ use_count(Now, p) # 1 => \E o \in Objects : ~allocated[o]
        /\ Commit(take_or_copy(Now, p), "take_or_copy", p, p, elem[p])

NextObjects ==
    \/ MakeRefcount
    \/ CopyConstruct
    \/ Destroy
    \/ Store
    \/ ObjectConstruct
    \/ ObjectAssign

SpecObjects == Init /\ [][NextObjects]_vars

NextTake ==
    \/ MakeRefcount
    \/ CopyConstruct
    \/ Destroy
    \/ Store
    \/ TakeOrCopy
    \/ DropUnique

SpecTake == Init /\ [][NextTake]_vars

----------------------------------------------------------------------------
\* Threads on one shared object.  The program made the object with
\* make_refcount and copied the handle once per further thread, so each of
\* the NumThreads threads starts with a handle of its own.  A thread copies
\* its handle and destroys the copy, up to MaxRounds times, then destroys
\* its handle.  The steps of a thread are the accesses to the shared
\* counter: the atomic increment of the copy constructor, the atomic
\* decrement of decrement_refcount, and its delete.

RECURSIVE Copies(_, _, _)
\* k copy constructions of a handle that references o
Copies(s, o, k) ==
    IF k = 0 THEN s ELSE Copies(increment_refcount(s, o), o, k - 1)

\* the object the program's first make_refcount allocates
Shared == new_object(Empty)

InitThreads ==
    LET s == Copies(make_unique(Empty, "Base"), Shared, NumThreads - 1) IN
    /\ references = s.references
    /\ allocated = s.allocated
    /\ deleted = s.deleted
    /\ dyntype = s.dyntype
    /\ uaf = s.uaf
    /\ elem = [h \in AllHandles |-> NoElem]
    /\ object = [h \in AllHandles |-> nullptr]
    /\ held = {}
    /\ last = NoOp
    /\ boxed = Empty
    /\ payload = [o \in Objects |-> DefaultPayload]
    /\ uq = NoUniques
    /\ eo = NoResults("std::error_code")
    /\ pc = [t \in Threads |-> "idle"]
    /\ own = [t \in Threads |-> Shared]
    /\ copy = [t \in Threads |-> nullptr]
    /\ n_refs = [t \in Threads |-> 0]
    /\ rounds = [t \in Threads |-> 0]

ThreadCommit(s) ==
    /\ references' = s.references
    /\ deleted' = s.deleted
    /\ uaf' = s.uaf
    /\ UNCHANGED <<allocated, dyntype, seqvars>>

\* refcount_ptr(refcount_ptr const & other) : object(other.object)
ThreadCopyLoad ==
    \E t \in Threads :
        /\ pc[t] = "idle" /\ rounds[t] < MaxRounds
        /\ copy' = [copy EXCEPT ![t] = own[t]]
        /\ pc' = [pc EXCEPT ![t] = "copying"]
        /\ UNCHANGED <<references, allocated, deleted, dyntype, uaf, seqvars,
                       own, n_refs, rounds>>

\* ... { if (object) increment_refcount(object); }
ThreadCopyIncrement ==
    \E t \in Threads :
        /\ pc[t] = "copying"
        /\ ThreadCommit(IF copy[t] # nullptr
                        THEN increment_refcount(Now, copy[t]) ELSE Now)
        /\ pc' = [pc EXCEPT ![t] = "holding"]
        /\ UNCHANGED <<own, copy, n_refs, rounds>>

\* ~refcount_ptr() of the copy, as far as auto n_refs = --references
ThreadDestroyCopy ==
    \E t \in Threads :
        /\ pc[t] = "holding"
        /\ LET s == IF copy[t] # nullptr
                    THEN pre_decrement(Now, copy[t]) ELSE Now IN
           /\ ThreadCommit(s)
           /\ n_refs' = [n_refs EXCEPT ![t] =
                            IF copy[t] # nullptr THEN s.references[copy[t]] ELSE @]
        /\ pc' = [pc EXCEPT ![t] = "dtor_copy"]
        /\ UNCHANGED <<own, copy, rounds>>

\* ~refcount_ptr() of the thread's handle, as far as auto n_refs = --references
ThreadDestroyOwn ==
    \E t \in Threads :
        /\ pc[t] = "idle"
        /\ LET s == IF own[t] # nullptr
                    THEN pre_decrement(Now, own[t]) ELSE Now IN
           /\ ThreadCommit(s)
           /\ n_refs' = [n_refs EXCEPT ![t] =
                            IF own[t] # nullptr THEN s.references[own[t]] ELSE @]
        /\ pc' = [pc EXCEPT ![t] = "dtor_own"]
        /\ UNCHANGED <<own, copy, rounds>>

\* Mutant of SeesZero: the counter is read again instead of using n_refs.
SeesZero_reload(t) == references[Shared] = 0

\* if (!n_refs)
SeesZero(t) == n_refs[t] = 0

\* ... delete object; return n_refs; and the handle is gone
ThreadDelete ==
    \E t \in Threads :
        /\ pc[t] \in {"dtor_copy", "dtor_own"}
        /\ LET o == IF pc[t] = "dtor_copy" THEN copy[t] ELSE own[t] IN
           ThreadCommit(IF o # nullptr /\ SeesZero(t) THEN delete(Now, o) ELSE Now)
        /\ IF pc[t] = "dtor_copy"
           THEN /\ pc' = [pc EXCEPT ![t] = "idle"]
                /\ copy' = [copy EXCEPT ![t] = nullptr]
                /\ rounds' = [rounds EXCEPT ![t] = @ + 1]
                /\ UNCHANGED own
           ELSE /\ pc' = [pc EXCEPT ![t] = "done"]
                /\ own' = [own EXCEPT ![t] = nullptr]
                /\ UNCHANGED <<copy, rounds>>
        /\ UNCHANGED n_refs

NextThreads ==
    \/ ThreadCopyLoad
    \/ ThreadCopyIncrement
    \/ ThreadDestroyCopy
    \/ ThreadDestroyOwn
    \/ ThreadDelete

SpecThreads == InitThreads /\ [][NextThreads]_vars

----------------------------------------------------------------------------
\* What the properties below read.

IsLive(o) == allocated[o] /\ deleted[o] = 0

\* the live handles that reference o, now and before the observed operation
HandlesOf(o) == {h \in Handles : Constructed(h) /\ object[h] = o}
PreHandlesOf(o) ==
    {h \in Handles : last.pre.elem[h] # NoElem /\ last.pre.object[h] = o}

\* the observed operation left counters, objects and handles as they were
NothingChanged ==
    /\ references = last.pre.references
    /\ allocated = last.pre.allocated
    /\ deleted = last.pre.deleted
    /\ elem = last.pre.elem
    /\ object = last.pre.object
    /\ ~uaf

\* every handle but those of the set H is as it was
OtherHandlesKept(H) ==
    \A h \in Handles \ H :
        elem[h] = last.pre.elem[h] /\ object[h] = last.pre.object[h]

\* every object but those of the set O is as it was
OtherObjectsKept(O) ==
    \A o \in Objects \ O :
        /\ references[o] = last.pre.references[o]
        /\ deleted[o] = last.pre.deleted[o]
        /\ allocated[o] = last.pre.allocated[o]

\* the primitives a release of one unit of A performs, and an acquisition
\* of one unit of B
ReleaseEvents(A) ==
    IF A = nullptr THEN <<>>
    ELSE IF last.pre.references[A] = 1
         THEN << <<"dec", A, 0>>, <<"delete", A, 0>> >>
         ELSE << <<"dec", A, last.pre.references[A] - 1>> >>

AcquireEvents(B) ==
    IF B = nullptr THEN <<>>
    ELSE << <<"inc", B, last.pre.references[B] + 1>> >>

----------------------------------------------------------------------------
\* C1: in every reachable state, the counter of every live object equals the
\* number of live handles that reference it.
C1_CounterEqualsHandles ==
    \A o \in Objects : IsLive(o) => references[o] = Cardinality(HandlesOf(o))

\* Two live objects, one shared by two handles and one held by a single one.
C1_Witness ==
    \E o1, o2 \in Objects :
        /\ o1 # o2 /\ IsLive(o1) /\ IsLive(o2)
        /\ Cardinality(HandlesOf(o1)) = 2 /\ Cardinality(HandlesOf(o2)) = 1

\* C2: an object is deleted exactly once, by the destruction of its last
\* handle: never while a handle references it, never twice, never omitted;
\* its counter is zero exactly when it has been deleted, and no counter
\* operation ever reaches a deleted object.
C2_DeletedOnceAtLastHandle ==
    /\ ~uaf
    /\ \A o \in Objects : allocated[o] =>
        /\ deleted[o] <= 1
        /\ deleted[o] = 1 <=> HandlesOf(o) = {}
        /\ references[o] = 0 <=> deleted[o] = 1
    /\ last.op = "dtor" /\ last.pre.object[last.dst] # nullptr =>
        LET A == last.pre.object[last.dst] IN
        /\ last.ev = ReleaseEvents(A)
        /\ deleted[A] = (IF PreHandlesOf(A) = {last.dst} THEN 1 ELSE 0)
        /\ last.pre.deleted[A] = 0

\* The destruction of the last of the handles of an object, which deletes it.
C2_Witness ==
    /\ last.op = "dtor"
    /\ last.pre.object[last.dst] # nullptr
    /\ PreHandlesOf(last.pre.object[last.dst]) = {last.dst}
    /\ deleted[last.pre.object[last.dst]] = 1

\* the handles of the threads that hold a unit of the shared object: a
\* thread's own handle until its destructor has decremented, its copy from
\* the increment to the decrement
UnitsHeld ==
    Cardinality({t \in Threads : pc[t] \in {"idle", "copying", "holding", "dtor_copy"}})
    + Cardinality({t \in Threads : pc[t] = "holding"})

\* the decrement calls that have seen the new value zero: those about to
\* delete, and those that have deleted
ZeroSeen ==
    Cardinality({t \in Threads : pc[t] \in {"dtor_copy", "dtor_own"} /\ n_refs[t] = 0})
    + deleted[Shared]

AllDone == \A t \in Threads : pc[t] = "done"

\* C3: under every interleaving of the threads' atomic increments and
\* decrements, at most one decrement call sees zero and it alone deletes,
\* only after every other handle has given its unit back; no counter
\* operation reaches the deleted object; and when all threads are done the
\* object has been deleted exactly once.
C3_ThreadsDeleteOnce ==
    /\ ~uaf
    /\ references[Shared] = UnitsHeld
    /\ ZeroSeen <= 1
    /\ deleted[Shared] <= 1
    /\ ZeroSeen = 1 => UnitsHeld = 0
    /\ AllDone => deleted[Shared] = 1 /\ ZeroSeen = 1

\* All threads are done after MaxRounds copies each, and the object is gone.
C3_Witness ==
    /\ AllDone
    /\ \A t \in Threads : rounds[t] = MaxRounds
    /\ deleted[Shared] = 1

\* C4, as claimed: for every element type, natively counted or wrapped,
\* make_refcount returns a handle that is non-null and whose use_count() is
\* 1.  It does for Base and Derived; make_refcount<Plain> constructs its
\* refcount_wrapper inside std::make_unique, where the private constructor
\* is not accessible, and returns nothing.
C4_MakeGivesCountOne ==
    last.op = "make_refcount" =>
        /\ object[last.dst] # nullptr
        /\ use_count(Now, last.dst) = 1
        /\ elem[last.dst] = last.type
        /\ dyntype[object[last.dst]] = refcounted_type(last.type)
        /\ IsLive(object[last.dst])

\* C5, as claimed: a new object has counter 0 and the wrap into the handle
\* performs the one increment that make_refcount's count of 1 comes from.
C5_Original ==
    last.op = "make_refcount" /\ Constructed(last.dst) =>
        last.ev = << <<"new", object[last.dst], 0>>,
                     <<"inc", object[last.dst], 1>> >>

\* C5, amended: a new object has counter 1 from its construction, and
\* make_refcount wraps it without any increment.
C5_NewObjectStartsAtOne ==
    last.op = "make_refcount" /\ Constructed(last.dst) =>
        /\ last.ev = << <<"new", object[last.dst], 1>> >>
        /\ references[object[last.dst]] = 1

\* make_refcount of a natively counted element type.
C5_Witness ==
    /\ last.op = "make_refcount"
    /\ last.type = "Derived"
    /\ last.pre.allocated[object[last.dst]] = FALSE

\* C6: copy-constructing q from a non-null p with use_count() n gives n + 1
\* on p and on q and leaves p where it was; destroying a handle whose object
\* another handle p references takes p.use_count() down by one and deletes
\* nothing.
C6_CopyThenDestroy ==
    /\ last.op = "ctor_copy" /\ last.pre.object[last.src] # nullptr =>
        LET P == last.pre.object[last.src]
            n == last.pre.references[P] IN
        /\ object[last.src] = P /\ object[last.dst] = P
        /\ use_count(Now, last.src) = n + 1
        /\ use_count(Now, last.dst) = n + 1
        /\ deleted = last.pre.deleted
        /\ OtherHandlesKept({last.dst})
    /\ last.op = "dtor" /\ last.pre.object[last.dst] # nullptr =>
        LET Q == last.pre.object[last.dst] IN
        \A p \in PreHandlesOf(Q) \ {last.dst} :
            /\ object[p] = Q
            /\ use_count(Now, p) = last.pre.references[Q] - 1
            /\ deleted[Q] = 0

\* The destruction of a copy, which restores the count of 1 of the original.
C6_Witness ==
    /\ last.op = "dtor"
    /\ last.pre.object[last.dst] # nullptr
    /\ last.pre.references[last.pre.object[last.dst]] = 2
    /\ \E p \in Handles \ {last.dst} :
        object[p] = last.pre.object[last.dst] /\ use_count(Now, p) = 1

MoveConstructions == {"ctor_move", "ctor_conv_move"}
MoveAssignments == {"assign_move", "assign_conv_move"}

\* what C7 says of a move from the handle src to the handle dst
MovedUnit ==
    LET S == last.pre.object[last.src] IN
    /\ references[S] = last.pre.references[S]
    /\ object[last.dst] = S
    /\ use_count(Now, last.dst) = last.pre.references[S]
    /\ object[last.src] = nullptr
    /\ use_count(Now, last.src) = 0
    /\ deleted[S] = 0 /\ ~uaf

\* C7, as claimed: every move construction and move assignment from a
\* non-null handle leaves the counter as it was, gives the destination the
\* source's use_count(), and leaves the source null with use_count() 0.
C7_Original ==
    /\ last.op \in MoveConstructions \cup MoveAssignments
    /\ last.pre.object[last.src] # nullptr
    => MovedUnit

\* C7, amended: that holds of a move construction, and of a move assignment
\* to another handle that does not reference the source's object already.
\* A move assignment to another handle of the same object gives up the
\* destination's own unit, so the counter goes down by one; a self-move
\* leaves the handle as it was.
C7_MoveKeepsCounter ==
    last.op \in MoveConstructions \cup MoveAssignments
        /\ last.pre.object[last.src] # nullptr =>
    LET S == last.pre.object[last.src] IN
    /\ last.op \in MoveConstructions => MovedUnit
    /\ last.op \in MoveAssignments /\ last.dst # last.src
           /\ last.pre.object[last.dst] # S => MovedUnit
    /\ last.op \in MoveAssignments /\ last.dst # last.src
           /\ last.pre.object[last.dst] = S =>
        /\ references[S] = last.pre.references[S] - 1
        /\ deleted[S] = 0
        /\ object[last.dst] = S /\ object[last.src] = nullptr
    /\ last.op \in MoveAssignments /\ last.dst = last.src => NothingChanged

\* A move assignment from a non-null handle to a handle of another object.
C7_Witness ==
    /\ last.op \in MoveAssignments
    /\ last.pre.object[last.src] # nullptr
    /\ last.pre.object[last.dst] # nullptr
    /\ last.pre.object[last.dst] # last.pre.object[last.src]
    /\ object[last.src] = nullptr

\* C8: a copy assignment whose source has the referent the destination has
\* already calls no counter primitive and changes nothing.
C8_CopyAssignSameReferent ==
    /\ last.op \in {"assign_copy", "assign_conv_copy"}
    /\ last.pre.object[last.dst] = last.pre.object[last.src]
    => last.ev = <<>> /\ NothingChanged

\* p = p on the only handle of an object.
C8_Witness ==
    /\ last.op = "assign_copy"
    /\ last.dst = last.src
    /\ last.pre.object[last.dst] # nullptr
    /\ last.pre.references[last.pre.object[last.dst]] = 1

\* C9: the self-move p = std::move(p) calls no counter primitive and changes
\* nothing: p keeps its object, the counter its value, the object its life.
C9_SelfMoveAssign ==
    last.op = "assign_move" /\ last.dst = last.src
    => last.ev = <<>> /\ NothingChanged

\* p = std::move(p) on the only handle of an object.
C9_Witness ==
    /\ last.op = "assign_move"
    /\ last.dst = last.src
    /\ last.pre.object[last.dst] # nullptr
    /\ last.pre.references[last.pre.object[last.dst]] = 1
    /\ object[last.dst] # nullptr

\* C10: the copy assignment p = q with p at A and q at another B (null or
\* not) first decrements A, deleting it iff that gives zero, then increments
\* B, each exactly once; q stays as it was and p ends at B.
C10_CopyAssignOtherReferent ==
    /\ last.op \in {"assign_copy", "assign_conv_copy"}
    /\ last.pre.object[last.dst] # last.pre.object[last.src]
    =>
    LET A == last.pre.object[last.dst]
        B == last.pre.object[last.src] IN
    /\ last.ev = ReleaseEvents(A) \o AcquireEvents(B)
    /\ A # nullptr =>
        /\ references[A] = last.pre.references[A] - 1
        /\ deleted[A] = (IF references[A] = 0 THEN 1 ELSE 0)
    /\ B # nullptr =>
        /\ references[B] = last.pre.references[B] + 1
        /\ deleted[B] = 0
    /\ object[last.dst] = B
    /\ OtherHandlesKept({last.dst})
    /\ OtherObjectsKept({A, B})
    /\ ~uaf

\* p = q where p is the only handle of A and q references B.
C10_Witness ==
    /\ last.op = "assign_copy"
    /\ last.pre.object[last.dst] # nullptr
    /\ last.pre.object[last.src] # nullptr
    /\ last.pre.object[last.dst] # last.pre.object[last.src]
    /\ deleted[last.pre.object[last.dst]] = 1

DynamicCasts == {"dynamic_cast_lvalue", "dynamic_cast_rvalue"}
StaticCasts == {"static_cast_rvalue", "static_cast_lvalue"}

\* the observed cast finds an object of the class it asks for
CastSucceeds ==
    /\ last.pre.object[last.src] # nullptr
    /\ is_convertible(dyntype[last.pre.object[last.src]],
                      refcounted_type(last.type))

\* C11: a dynamic cast that fails, in either form, returns a null handle,
\* calls no counter primitive and leaves the source, every other handle and
\* every object as they were; a non-null source stays non-null and keeps
\* its unit.
C11_FailedDynamicCast ==
    last.op \in DynamicCasts /\ ~CastSucceeds =>
        /\ last.ev = <<>>
        /\ elem[last.dst] = last.type
        /\ object[last.dst] = nullptr
        /\ use_count(Now, last.dst) = 0
        /\ object[last.src] = last.pre.object[last.src]
        /\ use_count(Now, last.src) = use_count(last.pre, last.src)
        /\ OtherHandlesKept({last.dst})
        /\ OtherObjectsKept({})
        /\ ~uaf

\* The rvalue cast to Derived of the only handle of an object that is a Base.
C11_Witness ==
    /\ last.op = "dynamic_cast_rvalue"
    /\ last.type = "Derived"
    /\ last.pre.object[last.src] # nullptr
    /\ dyntype[last.pre.object[last.src]] = "Base"
    /\ last.pre.references[last.pre.object[last.src]] = 1
    /\ object[last.src] # nullptr

\* C12: an rvalue dynamic cast that succeeds calls no counter primitive:
\* the source ends null, the result references the source's object, and
\* the counter is as before.
C12_RvalueDynamicCastTransfers ==
    last.op = "dynamic_cast_rvalue" /\ CastSucceeds =>
        LET S == last.pre.object[last.src] IN
        /\ last.ev = <<>>
        /\ object[last.src] = nullptr
        /\ elem[last.dst] = last.type
        /\ object[last.dst] = S
        /\ references[S] = last.pre.references[S]
        /\ use_count(Now, last.dst) = use_count(last.pre, last.src)
        /\ OtherHandlesKept({last.dst, last.src})
        /\ OtherObjectsKept({})
        /\ ~uaf

\* The rvalue cast from a Base handle to Derived of a shared Derived object.
C12_Witness ==
    /\ last.op = "dynamic_cast_rvalue"
    /\ last.type = "Derived"
    /\ last.pre.elem[last.src] = "Base"
    /\ object[last.dst] # nullptr
    /\ references[object[last.dst]] = 2
    /\ object[last.src] = nullptr

\* C13: an lvalue dynamic cast that succeeds returns a new handle to the
\* source's object and increments the counter exactly once; the source
\* keeps its referent.
C13_LvalueDynamicCastShares ==
    last.op = "dynamic_cast_lvalue" /\ CastSucceeds =>
        LET S == last.pre.object[last.src] IN
        /\ last.ev = AcquireEvents(S)
        /\ elem[last.dst] = last.type
        /\ object[last.dst] = S
        /\ object[last.src] = S
        /\ references[S] = last.pre.references[S] + 1
        /\ deleted[S] = 0
        /\ OtherHandlesKept({last.dst})
        /\ OtherObjectsKept({S})
        /\ ~uaf

\* The lvalue cast from a Base handle to Derived of a Derived object.
C13_Witness ==
    /\ last.op = "dynamic_cast_lvalue"
    /\ last.type = "Derived"
    /\ last.pre.elem[last.src] = "Base"
    /\ object[last.dst] # nullptr
    /\ object[last.src] = object[last.dst]
    /\ references[object[last.dst]] = 2

\* what C14 says of a static cast of the handle src
CastTransfersUnit ==
    LET S == last.pre.object[last.src] IN
    /\ object[last.src] = nullptr
    /\ object[last.dst] = S
    /\ get(Now, last.dst) = get(last.pre, last.src)
    /\ references[S] = last.pre.references[S]

\* C14, as claimed: after every static cast of a non-null handle the source
\* is null, the result has the address the source had, and the counter is
\* as before.
C14_Original ==
    last.op \in StaticCasts /\ last.pre.object[last.src] # nullptr =>
        CastTransfersUnit

\* C14, amended: static_pointer_cast takes its argument by value.  Of an
\* rvalue argument it transfers the unit as claimed.  An lvalue argument is
\* copied into the parameter: the source keeps its referent, the result
\* has the same address, and the counter is one more than before.
C14_StaticCastConsumesParameter ==
    last.op \in StaticCasts /\ last.pre.object[last.src] # nullptr =>
        LET S == last.pre.object[last.src] IN
        /\ elem[last.dst] = last.type
        /\ OtherHandlesKept({last.dst, last.src})
        /\ deleted[S] = 0 /\ ~uaf
        /\ last.op = "static_cast_rvalue" =>
            /\ CastTransfersUnit
            /\ last.ev = <<>>
        /\ last.op = "static_cast_lvalue" =>
            /\ object[last.src] = S
            /\ object[last.dst] = S
            /\ get(Now, last.dst) = get(last.pre, last.src)
            /\ references[S] = last.pre.references[S] + 1
            /\ last.ev = AcquireEvents(S)

\* The static cast of an rvalue Base handle to Derived.
C14_Witness ==
    /\ last.op = "static_cast_rvalue"
    /\ last.type = "Derived"
    /\ last.pre.elem[last.src] = "Base"
    /\ object[last.dst] # nullptr
    /\ object[last.src] = nullptr

\* the raw pointer of the observed raw construction or assignment
RawGiven == RawPointer(last.pre, last.src)

\* C15, as claimed: constructing a handle from, or assigning to a handle, a
\* non-null raw pointer to an object with counter n makes the counter n + 1.
C15_Original ==
    last.op \in {"ctor_raw", "assign_raw"} /\ RawGiven # nullptr =>
        references[RawGiven] = last.pre.references[RawGiven] + 1

\* C15, amended: that holds of the construction, and of the assignment to a
\* handle that references another object or none, which gives the unit of
\* its old referent back first.  The assignment to a handle that references
\* the pointer's object already changes nothing.  A null raw pointer
\* constructs an empty handle and touches no counter.
C15_RawPointerAddsUnit ==
    last.op \in {"ctor_raw", "assign_raw"} =>
        LET R == RawGiven
            A == last.pre.object[last.dst] IN
        /\ ~uaf
        /\ OtherHandlesKept({last.dst})
        /\ last.op = "ctor_raw" =>
            /\ elem[last.dst] = last.type
            /\ object[last.dst] = R
            /\ last.ev = AcquireEvents(R)
            /\ OtherObjectsKept({R})
            /\ R # nullptr =>
                references[R] = last.pre.references[R] + 1 /\ deleted[R] = 0
            /\ R = nullptr => use_count(Now, last.dst) = 0
        /\ last.op = "assign_raw" /\ R # A =>
            /\ object[last.dst] = R
            /\ last.ev = ReleaseEvents(A) \o AcquireEvents(R)
            /\ OtherObjectsKept({A, R})
            /\ R # nullptr =>
                references[R] = last.pre.references[R] + 1 /\ deleted[R] = 0
        /\ last.op = "assign_raw" /\ R = A =>
            last.ev = <<>> /\ NothingChanged

\* The assignment of a raw pointer to an object with counter 1 to a handle
\* that references another object.
C15_Witness ==
    /\ last.op = "assign_raw"
    /\ RawGiven # nullptr
    /\ last.pre.references[RawGiven] = 1
    /\ last.pre.object[last.dst] \notin {nullptr, RawGiven}
    /\ references[RawGiven] = 2

\* C16: in every reachable state, two handles are == (and not !=) exactly
\* when they reference the same object or are both null; a handle is
\* == nullptr, in either operand order, (and not != nullptr) exactly when it
\* is empty, which is when its bool conversion is false and when its
\* use_count() is 0.  (The comparisons are made between the operations of a
\* run; the state an observed operation ends in is also reached unobserved.)
C16_Equality ==
    last.op = "none" =>
    LET s == Now IN
    /\ \A a, b \in Handles : s.elem[a] # NoElem /\ s.elem[b] # NoElem =>
        /\ operator_eq(s, a, b) <=> s.object[a] = s.object[b]
        /\ operator_ne(s, a, b) <=> ~operator_eq(s, a, b)
    /\ \A p \in Handles : s.elem[p] # NoElem =>
        /\ operator_eq_nullptr_p(s, p) <=> s.object[p] = nullptr
        /\ operator_eq_p_nullptr(s, p) <=> s.object[p] = nullptr
        /\ operator_ne_nullptr_p(s, p) <=> ~operator_eq_nullptr_p(s, p)
        /\ operator_ne_p_nullptr(s, p) <=> ~operator_eq_p_nullptr(s, p)
        /\ s.object[p] = nullptr <=> ~bool(s, p)
        /\ s.object[p] = nullptr <=> use_count(s, p) = 0

\* A Base and a Derived handle on one object, and a third handle that is
\* empty.
C16_Witness ==
    \E a, b, c \in Handles :
        /\ last.op = "none"
        /\ Constructed(a) /\ Constructed(b) /\ Constructed(c)
        /\ elem[a] = "Base" /\ elem[b] = "Derived"
        /\ object[a] # nullptr /\ object[a] = object[b]
        /\ object[c] = nullptr
        /\ operator_eq(Now, a, b) /\ operator_ne(Now, a, c)

\* C17: in every reachable state, unique() converts to true exactly when
\* use_count() is 1, and then it is the handle's object: it is null for an
\* empty handle and for a handle whose object another live handle
\* references, and the object for the only live handle of an object.
\* (unique() is called between the operations of a run.)
C17_UniqueIffCountOne ==
    last.op = "none" =>
    LET s == Now IN
    \A p \in Handles : s.elem[p] # NoElem =>
        LET u == unique(s, p) IN
        /\ u # nullptr <=> use_count(s, p) = 1
        /\ u \in {nullptr, s.object[p]}
        /\ s.object[p] = nullptr => u = nullptr
        /\ s.object[p] # nullptr =>
            (u # nullptr <=> HandlesOf(s.object[p]) = {p})

\* One handle that is the only one of its object, and two that share one.
C17_Witness ==
    \E p, q, r \in Handles :
        /\ last.op = "none"
        /\ Constructed(p) /\ Constructed(q) /\ Constructed(r)
        /\ q # r /\ object[q] # nullptr /\ object[q] = object[r]
        /\ unique(Now, p) # nullptr
        /\ unique(Now, q) = nullptr

\* C18, as claimed: after every sequence of make, copy, move, assign and
\* destroy operations done in step on a natively counted and on a wrapped
\* element type, the two programs have the same handles, null and non-null
\* alike,
\* with the same use_count(), the same objects allocated and deleted, by the
\* same counter primitives and deletes in the same order; and get() is the
\* address of the payload: the object itself when it is counted natively,
\* the member wrapped and never the box when it is wrapped.
C18_WrappedAsNative ==
    /\ uaf = boxed.uaf
    /\ last.ev = boxed.ev
    /\ \A o \in Objects :
        /\ allocated[o] = boxed.allocated[o]
        /\ deleted[o] = boxed.deleted[o]
        /\ allocated[o] =>
            /\ dyntype[o] = NativeType
            /\ boxed.dyntype[o] = refcounted_type(WrappedType)
            /\ boxed.dyntype[o] # WrappedType
    /\ \A h \in Handles :
        /\ Constructed(h) <=> boxed.elem[h] # NoElem
        /\ Constructed(h) =>
            /\ elem[h] = NativeType /\ boxed.elem[h] = WrappedType
            /\ object[h] = boxed.object[h]
            /\ use_count(Now, h) = use_count(boxed, h)
            /\ unique(Now, h) = unique(boxed, h)
            /\ object[h] # nullptr =>
                /\ get(Now, h) = AddressOf(object[h])
                /\ get(boxed, h) = <<boxed.object[h], "wrapped">>
                /\ get(boxed, h) # AddressOf(boxed.object[h])
            /\ object[h] = nullptr =>
                get(Now, h) = NullAddress /\ get(boxed, h) = NullAddress

\* the state before the observed operation, as the members take it
PreState ==
    [references |-> last.pre.references, allocated |-> last.pre.allocated,
     deleted |-> last.pre.deleted, dyntype |-> dyntype,
     elem |-> last.pre.elem, object |-> last.pre.object,
     held |-> last.pre.held, payload |-> last.pre.payload,
     uaf |-> FALSE, ev |-> <<>>]

\* The observed operation is an assignment p = q or p = std::move(q) to a
\* handle p whose object A the decrement deletes, and with A goes the
\* handle q, or the object B that q references.
ReleaseTakesSource ==
    /\ last.op \in {"assign_copy", "assign_move"}
    /\ last.dst # last.src
    /\ last.pre.object[last.dst] # nullptr
    /\ last.pre.object[last.src] # nullptr
    /\ last.pre.object[last.dst] # last.pre.object[last.src]
    /\ LET A == last.pre.object[last.dst]
           B == last.pre.object[last.src]
           r == decrement_refcount(PreState, A) IN
       /\ r.deleted[A] = 1
       /\ r.elem[last.src] = NoElem \/ r.deleted[B] = 1

\* C19: an assignment whose decrement of the old referent A deletes A, and
\* with it the source q or the source's object B, touches no object and no
\* handle that has been destroyed, and leaves p at B, with B live and its
\* counter at least 1.
C19_AssignFromOwnedSource ==
    ReleaseTakesSource =>
        LET B == last.pre.object[last.src] IN
        /\ ~uaf
        /\ object[last.dst] = B
        /\ IsLive(B) /\ references[B] >= 1

\* C20: release_unique() on a handle whose use_count() is 1 calls no
\* counter primitive and deletes nothing: the handle ends null, a
\* unique_ptr owns the object, and the counter still reads 1.  On any other
\* handle, a null one included, it returns an empty unique_ptr and changes
\* nothing.  An object that a unique_ptr owns has counter 1 and no handle,
\* so the handle constructed from the unique_ptr, again without a counter
\* primitive, has use_count() 1.
C20_ReleaseUniqueRoundTrip ==
    /\ \A o \in held :
        IsLive(o) /\ references[o] = 1 /\ HandlesOf(o) = {}
    /\ last.op = "release_unique" =>
        LET O == last.pre.object[last.dst] IN
        /\ last.ev = <<>>
        /\ ~uaf
        /\ OtherHandlesKept({last.dst})
        /\ OtherObjectsKept({})
        /\ elem[last.dst] = last.pre.elem[last.dst]
        /\ use_count(last.pre, last.dst) = 1 =>
            /\ object[last.dst] = nullptr
            /\ held = last.pre.held \cup {O}
            /\ O \notin last.pre.held
            /\ deleted[O] = 0 /\ references[O] = 1
        /\ use_count(last.pre, last.dst) # 1 =>
            /\ object[last.dst] = O
            /\ held = last.pre.held
    /\ last.op = "ctor_unique" =>
        LET O == object[last.dst] IN
        /\ last.ev = <<>>
        /\ ~uaf
        /\ O \in last.pre.held
        /\ held = last.pre.held \ {O}
        /\ use_count(Now, last.dst) = 1
        /\ OtherHandlesKept({last.dst})
        /\ OtherObjectsKept({})

\* A handle constructed from the unique_ptr of an object that release_unique
\* took out of another handle, which is still there and empty.
C20_Witness ==
    /\ last.op = "ctor_unique"
    /\ object[last.dst] \in last.pre.held
    /\ use_count(Now, last.dst) = 1
    /\ \E h \in Handles \ {last.dst} :
        Constructed(h) /\ object[h] = nullptr

\* the counter of every live object is the number of its handles, or 1 when
\* a unique_ptr owns it and no handle references it
CountersMatchHandles ==
    \A o \in Objects : IsLive(o) =>
        IF o \in held THEN references[o] = 1 /\ HandlesOf(o) = {}
        ELSE references[o] = Cardinality(HandlesOf(o))

\* C21: take_or_copy(p) on a p that is not null returns a unique_ptr that
\* owns a live object with counter 1, the payload of *p, and no handle.
\* When p was the only handle of its object, that is the object itself: p
\* ends null and nothing is allocated or counted.  When the object was
\* shared, it is a newly allocated object of the refcounted_type of p, and
\* p, the object and its counter and payload are as they were.
C21_TakeOrCopy ==
    last.op = "take_or_copy" /\ last.pre.object[last.dst] # nullptr =>
        LET O == last.pre.object[last.dst]
            U == held \ last.pre.held
        IN
        /\ ~uaf
        /\ Cardinality(U) = 1
        /\ last.pre.held \subseteq held
        /\ \A u \in U :
            /\ IsLive(u) /\ references[u] = 1 /\ HandlesOf(u) = {}
            /\ payload[u] = last.pre.payload[O]
            /\ use_count(last.pre, last.dst) = 1 =>
                /\ u = O
                /\ object[last.dst] = nullptr
                /\ last.ev = <<>>
                /\ allocated = last.pre.allocated
            /\ use_count(last.pre, last.dst) # 1 =>
                /\ u # O /\ ~last.pre.allocated[u]
                /\ dyntype[u] = refcounted_type(elem[last.dst])
                /\ last.ev = << <<"new", u, 1>> >>
                /\ object[last.dst] = O
                /\ references[O] = last.pre.references[O]
                /\ payload[O] = last.pre.payload[O]
                /\ IsLive(O)
        /\ elem[last.dst] = last.pre.elem[last.dst]
        /\ OtherHandlesKept({last.dst})
        /\ OtherObjectsKept(U)
        /\ CountersMatchHandles

\* take_or_copy on one of two handles of an object whose payload was
\* stored to: the copy case.
C21_Witness ==
    /\ last.op = "take_or_copy"
    /\ use_count(last.pre, last.dst) = 2
    /\ last.pre.payload[last.pre.object[last.dst]] = "y"
    /\ \E u \in held : u # object[last.dst] /\ payload[u] = "y"

\* C22: an object copy- or move-constructed from one with counter n starts
\* with the initial counter, whatever n is, and the source keeps n; copy- or
\* move-assigning one object to another copies the payload and leaves both
\* counters as they were.  After either, the counter of every object is the
\* number of its handles.
C22_ObjectCopyKeepsCounters ==
    /\ last.op \in {"object_copy", "object_move"} =>
        LET S == last.pre.object[last.src]
            N == object[last.dst]
        IN
        /\ ~uaf
        /\ N # nullptr /\ N # S /\ ~last.pre.allocated[N] /\ IsLive(N)
        /\ references[N] = InitialReferences
        /\ HandlesOf(N) = {last.dst}
        /\ last.ev = << <<"new", N, InitialReferences>> >>
        /\ payload[N] = last.pre.payload[S]
        /\ references[S] = last.pre.references[S]
        /\ OtherObjectsKept({N})
        /\ OtherHandlesKept({last.dst})
        /\ CountersMatchHandles
    /\ last.op \in {"object_assign_copy", "object_assign_move"} =>
        LET P == last.pre.object[last.dst]
            Q == last.pre.object[last.src]
        IN
        /\ ~uaf
        /\ last.ev = <<>>
        /\ references[P] = last.pre.references[P]
        /\ references[Q] = last.pre.references[Q]
        /\ payload[P] = last.pre.payload[Q]
        /\ OtherObjectsKept({})
        /\ OtherHandlesKept({})
        /\ held = last.pre.held
        /\ CountersMatchHandles

\* An object copy-constructed from one that two handles reference and whose
\* payload was stored to.
C22_Witness ==
    /\ last.op = "object_copy"
    /\ last.pre.references[last.pre.object[last.src]] = 2
    /\ last.pre.payload[last.pre.object[last.src]] = "y"
    /\ references[object[last.dst]] = 1

\* the uniques that hold the value v
OwnersOf(v) == {u \in Uniques : uq.value_[u] = v}

\* C23: over every sequence of constructions, move constructions, move
\* assignments (of a unique to itself too), release() and destructions of
\* uniques, the Closer is called at most once for a value, and it has been
\* called for a value exactly when the unique that owned it was destroyed or
\* assigned to: never for a value that a unique still owns or that
\* release() gave back to the program.  Every value given to a unique is
\* owned by one unique, or in the hands of the program, or closed.
C23_CloserOncePerOwnedValue ==
    \A v \in Values :
        /\ uq.closes[v] <= 1
        /\ uq.closes[v] = 1 => OwnersOf(v) = {} /\ v \notin uq.out
        /\ v \in uq.opened =>
            \/ Cardinality(OwnersOf(v)) = 1 /\ v \notin uq.out
                    /\ uq.closes[v] = 0
            \/ OwnersOf(v) = {} /\ v \in uq.out /\ uq.closes[v] = 0
            \/ OwnersOf(v) = {} /\ v \notin uq.out /\ uq.closes[v] = 1

\* C24: after every sequence of constructions from a value or an error, of
\* copy and move constructions and of copy and move assignments, every
\* error_or has a T alive exactly when ok() holds, that is when its error_
\* is 'no error'; constructing one from a 'no error' Error throws and
\* leaves no object, from any other Error it gives an error_or with that
\* error.
C24_ValueAliveIffOk ==
    /\ \A r \in Results :
        eo.error_[r] # NoResult => (eo.value_[r] # NoT <=> ok(eo, r))
    /\ eo.op[1] = "ctor_error" =>
        IF eo.op[3] = NoError
        THEN eo.thrown /\ eo.error_[eo.op[2]] = NoResult
        ELSE ~eo.thrown /\ eo.error_[eo.op[2]] = eo.op[3]
                /\ eo.value_[eo.op[2]] = NoT

====
